---------------------------- MODULE Spec2Model ----------------------------
(***************************************************************************)
(* Model of the recurrence and scheduling engine of ai-todolist            *)
(* (src/src/lib/scheduling.ts, class SchedulingEngine) together with the   *)
(* data types of src/src/types/todo.ts.                                    *)
(*                                                                         *)
(* Dates.  A JavaScript Date is modelled at day granularity: a date is the *)
(* number of whole days since 1970-01-01, read in a local zone without     *)
(* daylight saving (UTC).  The time of day is dropped.  Months are         *)
(* numbered 0..11 as Date.getMonth does.                                   *)
(*                                                                         *)
(* Optional values.  A field that may be undefined (or a result that may   *)
(* be null) is a sequence: None = << >> is the missing value, Some(v) =    *)
(* <<v>> a present one.                                                    *)
(*                                                                         *)
(* Texts are TLA+ strings; Len, SubSeq and \o read them by character.      *)
(*                                                                         *)
(* Evaluation.  The calendar conversions are functions on Int, and a value *)
(* that is used several times is bound by \E x \in {e} or by applying a    *)
(* local function, so that it is computed once.                            *)
(***************************************************************************)
EXTENDS Integers, Sequences, FiniteSets, TLC

None == << >>
Some(v) == << v >>

(***************************************************************************)
(* Calendar arithmetic of the built-in Date object.                        *)
(***************************************************************************)

\* Day number of the civil date (y, m, d) with m in 1..12 (proleptic
\* Gregorian calendar), counted from 1970-01-01.
DaysFromCivil[y \in Int, m \in Int, d \in Int] ==
  LET yy  == IF m <= 2 THEN y - 1 ELSE y
      era == yy \div 400
      yoe == yy - era * 400
      mp  == IF m > 2 THEN m - 3 ELSE m + 9
      doy == (153 * mp + 2) \div 5 + d - 1
      doe == yoe * 365 + yoe \div 4 - yoe \div 100 + doy
  IN  era * 146097 + doe - 719468

\* ECMAScript MakeDay: the month may lie outside 0..11 and the day outside
\* the month; both overflow into the following months/years.
MakeDay(year, month, date) ==
  DaysFromCivil[year + month \div 12, (month % 12) + 1, 1] + date - 1

\* The civil date of a day number: [year, month (0..11), date (1..31)].
CivilFromDays[n \in Int] ==
  LET z   == n + 719468
      era == z \div 146097
      doe == z - era * 146097
      yoe == (doe - doe \div 1460 + doe \div 36524 - doe \div 146096) \div 365
      doy == doe - (365 * yoe + yoe \div 4 - yoe \div 100)
      mp  == (5 * doy + 2) \div 153
      d   == doy - (153 * mp + 2) \div 5 + 1
      m   == IF mp < 10 THEN mp + 3 ELSE mp - 9
  IN  [year  |-> yoe + era * 400 + (IF m <= 2 THEN 1 ELSE 0),
       month |-> m - 1,
       date  |-> d]

getFullYear(n) == CivilFromDays[n].year
getMonth(n)    == CivilFromDays[n].month
getDate(n)     == CivilFromDays[n].date
\* 1970-01-01 was a Thursday (4); Sunday is 0.
getDay(n)      == (n + 4) % 7

\* Date.prototype.setDate / setMonth / setFullYear on the date n.
setDate(n, date)     == MakeDay(getFullYear(n), getMonth(n), date)
setMonth(n, month)   == MakeDay(getFullYear(n), month, getDate(n))
setFullYear(n, year) == MakeDay(year, getMonth(n), getDate(n))

(***************************************************************************)
(* Text helpers: the String and RegExp built-ins the engine uses.          *)
(***************************************************************************)
Char(s, i) == SubSeq(s, i, i)

UpperAlpha == "ABCDEFGHIJKLMNOPQRSTUVWXYZ"
LowerAlpha == "abcdefghijklmnopqrstuvwxyz"
DigitChars == "0123456789"

IsDigit(c) == \E k \in 1..Len(DigitChars) : Char(DigitChars, k) = c
DigitVal(c) == (CHOOSE k \in 1..Len(DigitChars) : Char(DigitChars, k) = c) - 1

LowerChar(c) ==
  IF \E k \in 1..Len(UpperAlpha) : Char(UpperAlpha, k) = c
  THEN Char(LowerAlpha, CHOOSE k \in 1..Len(UpperAlpha) : Char(UpperAlpha, k) = c)
  ELSE c

\* The characters of s from position i on, in lower case.
RECURSIVE LowerFrom(_, _)
LowerFrom(s, i) ==
  IF i > Len(s) THEN ""
  ELSE LowerChar(Char(s, i)) \o LowerFrom(s, i + 1)

toLowerCase(s) == LowerFrom(s, 1)

\* lit occurs in s at position i.
MatchAt(s, i, lit) ==
  /\ i >= 1
  /\ i + Len(lit) - 1 <= Len(s)
  /\ SubSeq(s, i, i + Len(lit) - 1) = lit

\* An unanchored, case-insensitive literal: /lit/i.test(s).
TestLiteral(s, lit) ==
  \E t \in {toLowerCase(s)} : \E i \in 1..Len(t) : MatchAt(t, i, lit)

\* An anchored, case-insensitive literal: /^lit$/i.test(s).
TestWhole(s, lit) == toLowerCase(s) = lit

\* s[i..j] is a non-empty run of digits.
DigitRun(s, i, j) ==
  /\ i <= j
  /\ \A k \in i..j : IsDigit(Char(s, k))

\* The number the first k digits of ds spell.
RECURSIVE DecimalValue(_, _)
DecimalValue(ds, k) ==
  IF k = 0 THEN 0
  ELSE 10 * DecimalValue(ds, k - 1) + DigitVal(Char(ds, k))

\* parseInt of a string of decimal digits.
parseInt(ds) == DecimalValue(ds, Len(ds))

\* s.match(/(\d+)/)[1]: the leftmost, longest run of digits of s
\* ("" when s has no digit).
FirstDigits(s) ==
  IF \E i \in 1..Len(s) : IsDigit(Char(s, i))
  THEN LET i == CHOOSE a \in 1..Len(s) :
                  /\ IsDigit(Char(s, a))
                  /\ \A b \in 1..(a - 1) : ~IsDigit(Char(s, b))
           j == CHOOSE e \in i..Len(s) :
                  /\ DigitRun(s, i, e)
                  /\ (e = Len(s) \/ ~IsDigit(Char(s, e + 1)))
       IN  SubSeq(s, i, j)
  ELSE ""

\* /every (\d+) months?/i.test(s)
TestEveryNMonths(s) ==
  \E t \in {toLowerCase(s)} :
    \E i \in 1..Len(t) :
      /\ MatchAt(t, i, "every ")
      /\ \E j \in (i + 6)..Len(t) :
           /\ DigitRun(t, i + 6, j)
           /\ MatchAt(t, j + 1, " month")

(***************************************************************************)
(* SchedulingEngine.parseRecurringPattern                                  *)
(***************************************************************************)
Pattern(frequency, interval, unit) ==
  [frequency |-> frequency, interval |-> interval, unit |-> unit,
   nextDueDate |-> None]

\* The handler of the rule "every N months".
EveryNMonthsHandler(description) ==
  Pattern("monthly",
          parseInt(IF FirstDigits(description) = "" THEN "1"
                   ELSE FirstDigits(description)),
          "months")

parseRecurringPattern(description) ==
  IF TestLiteral(description, "twice a year")
    THEN Some(Pattern("custom", 6, "months"))
  ELSE IF TestEveryNMonths(description)
    THEN Some(EveryNMonthsHandler(description))
  ELSE IF TestLiteral(description, "monthly") \/ TestLiteral(description, "every month")
    THEN Some(Pattern("monthly", 1, "months"))
  ELSE IF TestLiteral(description, "quarterly") \/ TestLiteral(description, "every quarter")
    THEN Some(Pattern("custom", 3, "months"))
  ELSE IF \/ TestLiteral(description, "annually")
          \/ TestLiteral(description, "yearly")
          \/ TestLiteral(description, "every year")
    THEN Some(Pattern("yearly", 1, "years"))
  ELSE IF TestLiteral(description, "weekly") \/ TestLiteral(description, "every week")
    THEN Some(Pattern("weekly", 1, "weeks"))
  ELSE IF TestLiteral(description, "daily") \/ TestLiteral(description, "every day")
    THEN Some(Pattern("daily", 1, "days"))
  ELSE None

(***************************************************************************)
(* The ambient state of a session that uses the engine.                    *)
(***************************************************************************)
VARIABLES
  clock,    \* the day the system clock shows: what `new Date()` returns
  nextId,   \* number of identifiers uuidv4() has handed out
  arrays,   \* the heap of TodoInstance[] arrays; a Todo refers to one by index
  todo,     \* the Todo value the caller holds (None before one is created)
  call,     \* the last engine call: its arguments, what it saw, its result
  nCalls    \* number of engine calls made on the held Todo

vars == << clock, nextId, arrays, todo, call, nCalls >>

(***************************************************************************)
(* SchedulingEngine.parseRelativeDate                                      *)
(***************************************************************************)
dayNames == << "sunday", "monday", "tuesday", "wednesday", "thursday",
               "friday", "saturday" >>

\* /^in (\d+) months?$/i.test(s)
TestInNMonths(s) ==
  \E t \in {toLowerCase(s)} :
    /\ MatchAt(t, 1, "in ")
    /\ \E j \in 4..Len(t) :
         /\ DigitRun(t, 4, j)
         /\ SubSeq(t, j + 1, Len(t)) \in {" month", " months"}

\* /^(monday|...|sunday)$/i.test(s)
TestDayName(s) ==
  \E t \in {toLowerCase(s)} : \E k \in 1..Len(dayNames) : t = dayNames[k]

DaysInMonth(year, month) == MakeDay(year, month + 1, 1) - MakeDay(year, month, 1)

\* s is a date-only ISO-8601 string YYYY-MM-DD (by its shape).
IsIsoShape(s) ==
  /\ Len(s) = 10
  /\ DigitRun(s, 1, 4) /\ Char(s, 5) = "-"
  /\ DigitRun(s, 6, 7) /\ Char(s, 8) = "-"
  /\ DigitRun(s, 9, 10)

\* s is a numeric date MM/DD/YYYY (by its shape), a form the Date
\* constructor of Node's engine (and of the browsers) parses as well.
IsSlashShape(s) ==
  /\ Len(s) = 10
  /\ DigitRun(s, 1, 2) /\ Char(s, 3) = "/"
  /\ DigitRun(s, 4, 5) /\ Char(s, 6) = "/"
  /\ DigitRun(s, 7, 10)

\* The day (y, m, d) names, m in 1..12, if it exists.
ExistingDay(y, m, d) ==
  IF m \in 1..12 /\ d >= 1 /\ d <= DaysInMonth(y, m - 1)
  THEN Some(MakeDay(y, m - 1, d))
  ELSE None

\* new Date(dateString) for a text no rule matched.  A date-only ISO-8601
\* string YYYY-MM-DD and a numeric date MM/DD/YYYY naming an existing day
\* give that day; a month outside 1..12 and a text without any digit are an
\* Invalid Date (None).  Other texts that contain digits, and days past the
\* end of their month, are treated differently from engine to engine and
\* are not among the sampled texts.
DateFromString(s) ==
  IF IsIsoShape(s)
    THEN ExistingDay(parseInt(SubSeq(s, 1, 4)), parseInt(SubSeq(s, 6, 7)),
                     parseInt(SubSeq(s, 9, 10)))
  ELSE IF IsSlashShape(s)
    THEN ExistingDay(parseInt(SubSeq(s, 7, 10)), parseInt(SubSeq(s, 1, 2)),
                     parseInt(SubSeq(s, 4, 5)))
  ELSE None

\* A variant that goes to the Saturday of next week on a Saturday
\* (`(6 - dayOfWeek) % 7 || 7`).
DaysUntilSaturdaySkipsToday(dayOfWeek) ==
  IF (6 - dayOfWeek) % 7 = 0 THEN 7 ELSE (6 - dayOfWeek) % 7

\* A variant without the `|| 7`: the named weekday may be today.
DaysUntilAllowsToday(targetDay, currentDay) ==
  (targetDay - currentDay + 7) % 7

\* The handler of "this weekend": days from a weekday to Saturday.
DaysUntilSaturday(dayOfWeek) == (6 - dayOfWeek) % 7

\* The handler of a weekday name: days to the next such weekday
\* (`(targetDay - currentDay + 7) % 7 || 7`).
DaysUntil(targetDay, currentDay) ==
  IF (targetDay - currentDay + 7) % 7 = 0 THEN 7
  ELSE (targetDay - currentDay + 7) % 7

\* The handler of "next month" (and of "in N months").
NextMonth(today) ==
  MakeDay(getFullYear(today), getMonth(today) + 1, getDate(today))

\* The rule table and the fallback, with `today` already computed.
ResolveRelativeDate(dateString, today) ==
  IF TestWhole(dateString, "today") THEN Some(today)
  ELSE IF TestWhole(dateString, "tomorrow") THEN Some(today + 1)
  ELSE IF TestWhole(dateString, "this week") THEN Some(today + 7)
  ELSE IF TestWhole(dateString, "next week") THEN Some(today + 14)
  ELSE IF TestWhole(dateString, "this weekend")
    THEN Some(today + DaysUntilSaturday(getDay(today)))
  ELSE IF TestWhole(dateString, "next month") THEN Some(NextMonth(today))
  ELSE IF TestInNMonths(dateString) THEN Some(NextMonth(today))
  ELSE IF TestWhole(dateString, "before summer")
    THEN Some(MakeDay(getFullYear(today), 5, 1))
  ELSE IF TestWhole(dateString, "by spring")
    THEN Some(MakeDay(getFullYear(today), 2, 20))
  ELSE IF TestDayName(dateString)
    THEN LET targetDay == (CHOOSE k \in 1..Len(dayNames) :
                             dayNames[k] = toLowerCase(dateString)) - 1
             currentDay == getDay(today)
         IN  Some(today + DaysUntil(targetDay, currentDay))
  ELSE DateFromString(dateString)

\* `now` is read from the system clock inside the function; `today` is its
\* day (new Date(now.getFullYear(), now.getMonth(), now.getDate())).
parseRelativeDate(dateString) ==
  ResolveRelativeDate(dateString,
                      MakeDay(getFullYear(clock), getMonth(clock), getDate(clock)))

(***************************************************************************)
(* SchedulingEngine.calculateNextDueDate                                   *)
(***************************************************************************)
\* lastDate is optional; without it the system clock is read.
\* A variant that sets the day of the month to the interval instead of
\* adding the interval to it.
calculateNextDueDateSetsDay(pattern, lastDate) ==
  LET baseDate == IF lastDate = None THEN clock ELSE lastDate[1]
  IN  CASE pattern.unit = "days"   -> setDate(baseDate, pattern.interval)
        [] pattern.unit = "weeks"  -> setDate(baseDate, pattern.interval * 7)
        [] pattern.unit = "months" -> setMonth(baseDate, getMonth(baseDate) + pattern.interval)
        [] pattern.unit = "years"  -> setFullYear(baseDate, getFullYear(baseDate) + pattern.interval)
        [] OTHER -> baseDate

calculateNextDueDate(pattern, lastDate) ==
  LET baseDate == IF lastDate = None THEN clock ELSE lastDate[1]
      next     == baseDate
  IN  CASE pattern.unit = "days"   -> setDate(next, getDate(next) + pattern.interval)
        [] pattern.unit = "weeks"  -> setDate(next, getDate(next) + pattern.interval * 7)
        [] pattern.unit = "months" -> setMonth(next, getMonth(next) + pattern.interval)
        [] pattern.unit = "years"  -> setFullYear(next, getFullYear(next) + pattern.interval)
        [] OTHER -> next

(***************************************************************************)
(* SchedulingEngine.generateRecurringInstances                             *)
(***************************************************************************)
\* Variant: currentDate is never advanced, so every occurrence is computed
\* from the starting date.
RECURSIVE InstanceDatesFromStart(_, _, _)
InstanceDatesFromStart(pattern, currentDate, count) ==
  IF count <= 0 THEN << >>
  ELSE LET Push[next \in Int] ==
             << next >> \o InstanceDatesFromStart(pattern, currentDate, count - 1)
       IN  Push[calculateNextDueDate(pattern, Some(currentDate))]

\* The loop of generateRecurringInstances: the dates of `count` successive
\* occurrences, each computed from the one before it.
RECURSIVE InstanceDates(_, _, _)
InstanceDates(pattern, currentDate, count) ==
  IF count <= 0 THEN << >>
  ELSE LET Push[next \in Int] ==
             << next >> \o InstanceDates(pattern, next, count - 1)
       IN  Push[calculateNextDueDate(pattern, Some(currentDate))]

\* One pushed TodoInstance; uuid is the identifier uuidv4() returned.
NewInstance(uuid, parentId, scheduledDate) ==
  [id            |-> uuid,
   parentId      |-> parentId,
   scheduledDate |-> scheduledDate,
   status        |-> "scheduled",
   delayReason   |-> None]

\* issued is the number of identifiers uuidv4() has handed out before the
\* call; the i-th push takes the next one.
generateRecurringInstances(t, count, issued) ==
  IF ~t.isRecurring \/ t.recurringPattern = None THEN << >>
  ELSE LET start == IF t.dueDate = None THEN clock ELSE t.dueDate[1]
           dates == InstanceDates(t.recurringPattern[1], start, count)
       IN  [i \in 1..Len(dates) |-> NewInstance(issued + i, t.id, dates[i])]

(***************************************************************************)
(* SchedulingEngine.createTodoFromParsed                                   *)
(***************************************************************************)
\* The Todo literal the function starts from.
BaseTodo(parsed, uuid) ==
  [id               |-> uuid,
   content          |-> parsed.content,
   originalInput    |-> parsed.content,
   priority         |-> parsed.priority,
   status           |-> "pending",
   category         |-> parsed.category,
   isRecurring      |-> parsed.isRecurring,
   createdAt        |-> clock,
   dueDate          |-> None,
   recurringPattern |-> None,
   instances        |-> None]

\* A variant that falls back to the current day when the text does not
\* resolve (`parseRelativeDate(parsed.dueDate) || new Date()`).
ParseDueDateDefaultsToday(t, parsed) ==
  IF parsed.dueDate # None /\ parsed.dueDate[1] # ""
  THEN [t EXCEPT !.dueDate =
          IF parseRelativeDate(parsed.dueDate[1]) = None THEN Some(clock)
          ELSE parseRelativeDate(parsed.dueDate[1])]
  ELSE t

\* "Parse due date": an empty text is falsy and is skipped like a missing
\* one; a null result leaves dueDate unset.
ParseDueDate(t, parsed) ==
  IF parsed.dueDate # None /\ parsed.dueDate[1] # ""
  THEN [t EXCEPT !.dueDate = parseRelativeDate(parsed.dueDate[1])]
  ELSE t

\* A variant that computes nextDueDate from the current day instead of the
\* Todo's dueDate (`calculateNextDueDate(pattern)`).
StorePatternFromToday(t, pattern) ==
  IF pattern = None THEN t
  ELSE IF t.dueDate # None
    THEN [t EXCEPT !.recurringPattern =
            Some([pattern[1] EXCEPT
                    !.nextDueDate = Some(calculateNextDueDate(pattern[1], None))])]
  ELSE [t EXCEPT !.recurringPattern = pattern]

\* `todo.recurringPattern = pattern`, and its nextDueDate when the todo has
\* a dueDate; pattern is what parseRecurringPattern returned.
StorePattern(t, pattern) ==
  IF pattern = None THEN t
  ELSE IF t.dueDate # None
    THEN [t EXCEPT !.recurringPattern =
            Some([pattern[1] EXCEPT
                    !.nextDueDate = Some(calculateNextDueDate(pattern[1], t.dueDate))])]
  ELSE [t EXCEPT !.recurringPattern = pattern]

\* "Handle recurring pattern", up to the stored pattern.
HandleRecurringPattern(t, parsed) ==
  IF parsed.isRecurring /\ parsed.recurringPattern # None
  THEN StorePattern(t, parseRecurringPattern(parsed.recurringPattern[1].description))
  ELSE t

\* "Generate future instances": reached exactly when a pattern was stored.
\* The result is the Todo and the array of instances it refers to, if any;
\* newRef is the heap index a new array gets.
WithInstances(t, issued, newRef) ==
  IF t.recurringPattern # None
  THEN [todo      |-> [t EXCEPT !.instances = Some(newRef)],
        instances |-> Some(generateRecurringInstances(t, 5, issued))]
  ELSE [todo |-> t, instances |-> None]

\* issued is the number of identifiers handed out before the call; the Todo
\* takes the next one.
createTodoFromParsed(parsed, issued, newRef) ==
  WithInstances(
    HandleRecurringPattern(ParseDueDate(BaseTodo(parsed, issued + 1), parsed), parsed),
    issued + 1, newRef)

(***************************************************************************)
(* SchedulingEngine.rescheduleRecurringTodo                                *)
(***************************************************************************)
\* Date.prototype.toLocaleDateString() in the en-US locale: M/D/YYYY.
toLocaleDateString(n) ==
  ToString(getMonth(n) + 1) \o "/" \o ToString(getDate(n)) \o "/"
    \o ToString(getFullYear(n))

\* Variant: a miss is not told apart from a hit; the index -1 is used as
\* Array.prototype.at would, naming the last element.
findIndexNoMiss(instances, instanceId) ==
  IF \E i \in 1..Len(instances) : instances[i].id = instanceId
  THEN CHOOSE i \in 1..Len(instances) :
         /\ instances[i].id = instanceId
         /\ \A j \in 1..(i - 1) : instances[j].id # instanceId
  ELSE Len(instances)

\* Array.prototype.findIndex by id, 1-based; 0 stands for -1 (not found).
findIndex(instances, instanceId) ==
  IF \E i \in 1..Len(instances) : instances[i].id = instanceId
  THEN CHOOSE i \in 1..Len(instances) :
         /\ instances[i].id = instanceId
         /\ \A j \in 1..(i - 1) : instances[j].id # instanceId
  ELSE 0

\* Variant: the note cites the new date and the status is kept.
UpdatedInstanceKeepsStatus(instance, newDate, originalDate) ==
  [instance EXCEPT
     !.scheduledDate = newDate,
     !.delayReason   = Some("Rescheduled from " \o toLocaleDateString(newDate))]

\* "Update the specific instance".
UpdatedInstance(instance, newDate, originalDate) ==
  [instance EXCEPT
     !.scheduledDate = newDate,
     !.status        = "delayed",
     !.delayReason   = Some("Rescheduled from " \o toLocaleDateString(originalDate))]

\* Variant: a shifted occurrence is marked delayed like the target.
ShiftedInstanceMarksDelayed(futureInstance, timeDifference) ==
  [futureInstance EXCEPT !.scheduledDate = @ + timeDifference,
                         !.status = "delayed"]

\* Variant: the difference is subtracted from a later occurrence.
ShiftedInstanceBackwards(futureInstance, timeDifference) ==
  [futureInstance EXCEPT !.scheduledDate = @ - timeDifference]

\* One step of "Propagate to future instances".
ShiftedInstance(futureInstance, timeDifference) ==
  [futureInstance EXCEPT !.scheduledDate = @ + timeDifference]

\* Variant: the later occurrences are shifted whatever the flag says.
RescheduledInstancesAlwaysPropagate(instances, index, newDate, propagateToFuture) ==
  LET instance       == instances[index]
      originalDate   == instance.scheduledDate
      timeDifference == newDate - originalDate
  IN  [i \in 1..Len(instances) |->
         IF i = index THEN UpdatedInstance(instance, newDate, originalDate)
         ELSE IF i > index THEN ShiftedInstance(instances[i], timeDifference)
         ELSE instances[i]]

\* Variant: the occurrences before the rescheduled one are dropped from the
\* array (as `instances.slice(instanceIndex)` would).
RescheduledInstancesDropsEarlier(instances, index, newDate, propagateToFuture) ==
  LET instance       == instances[index]
      originalDate   == instance.scheduledDate
      timeDifference == newDate - originalDate
  IN  [i \in 1..(Len(instances) - index + 1) |->
         IF i = 1 THEN UpdatedInstance(instance, newDate, originalDate)
         ELSE IF propagateToFuture
           THEN ShiftedInstance(instances[index + i - 1], timeDifference)
         ELSE instances[index + i - 1]]

\* The array after the two writes; index is the position found.
RescheduledInstances(instances, index, newDate, propagateToFuture) ==
  LET instance       == instances[index]
      originalDate   == instance.scheduledDate
      timeDifference == newDate - originalDate
  IN  [i \in 1..Len(instances) |->
         IF i = index THEN UpdatedInstance(instance, newDate, originalDate)
         ELSE IF propagateToFuture /\ i > index
           THEN ShiftedInstance(instances[i], timeDifference)
         ELSE instances[i]]

\* The returned Todo and the heap after the call.  `{ ...todo }` copies the
\* fields of the Todo, so the copy refers to the very array the argument
\* refers to, and the writes go to that array.
rescheduleRecurringTodo(t, instanceId, newDate, propagateToFuture) ==
  IF t.instances = None THEN [todo |-> t, arrays |-> arrays]
  ELSE LET updatedTodo   == t
           ref           == updatedTodo.instances[1]
           instanceIndex == findIndex(arrays[ref], instanceId)
       IN  IF instanceIndex = 0 THEN [todo |-> t, arrays |-> arrays]
           ELSE [todo   |-> updatedTodo,
                 arrays |-> [arrays EXCEPT ![ref] =
                               RescheduledInstances(arrays[ref], instanceIndex,
                                                    newDate, propagateToFuture)]]

(***************************************************************************)
(* Bounds and sampled inputs.                                              *)
(***************************************************************************)
MaxTicks == 1     \* days the clock may advance during a session
MaxCalls == 2     \* engine calls and outside edits on the held Todo
MaxCount == 5     \* largest `count` passed to generateRecurringInstances
MaxInterval == 3  \* largest interval of a directly sampled pattern

Day(y, m, d) == DaysFromCivil[y, m, d]

StartDay == Day(2024, 1, 30)

Units == {"days", "weeks", "months", "years"}

\* ParsedTodo records as the language-model layer delivers them.  Of
\* recurringPattern only `description` is read by the engine.
Parsed(content, priority, category, dueDate, isRecurring, description) ==
  [content          |-> content,
   priority         |-> priority,
   category         |-> category,
   dueDate          |-> dueDate,
   isRecurring      |-> isRecurring,
   recurringPattern |-> IF description = None THEN None
                        ELSE Some([description |-> description[1]])]

SessionDueDates == {None, Some("2024-01-01"), Some("2024-01-31")}
SessionDescriptions ==
  {None, Some("every 6 months"), Some("monthly"), Some("every 0 months"),
   Some("now and then")}

SessionInputs ==
  {Parsed("renew passport", "high", "personal", d, r, p) :
     d \in SessionDueDates, r \in BOOLEAN, p \in SessionDescriptions}

\* New dates a caller asks for: one before and one after the sampled
\* schedules' second occurrence.
NewDates == {Day(2024, 3, 1), Day(2025, 1, 11)}

\* An identifier uuidv4() has not handed out: no occurrence carries it.
UnknownId == nextId + 1

(***************************************************************************)
(* The occurrence sequence a Todo value shows to whoever holds it.         *)
(***************************************************************************)
Occurrences(t) == IF t.instances = None THEN None ELSE Some(arrays[t.instances[1]])

(***************************************************************************)
(* Actions of a session.                                                   *)
(***************************************************************************)
Init ==
  /\ clock = StartDay
  /\ nextId = 0
  /\ arrays = << >>
  /\ todo = None
  /\ call = [op |-> "none"]
  /\ nCalls = 0

\* A day passes.
Tick ==
  /\ clock < StartDay + MaxTicks
  /\ clock' = clock + 1
  /\ UNCHANGED << nextId, arrays, todo, call, nCalls >>

\* chat.ts: a parsed record is turned into a Todo, which the caller keeps.
CreateTodoFromParsed(parsed) ==
  /\ todo = None
  /\ \E r \in {createTodoFromParsed(parsed, nextId, Len(arrays) + 1)} :
       /\ todo' = Some(r.todo)
       /\ arrays' = IF r.instances = None THEN arrays
                    ELSE Append(arrays, r.instances[1])
       /\ nextId' = nextId + 1 + (IF r.instances = None THEN 0
                                  ELSE Len(r.instances[1]))
       /\ call' = [op |-> "create", parsed |-> parsed, now |-> clock,
                   result |-> r.todo]
  /\ UNCHANGED << clock, nCalls >>

\* generateRecurringInstances(todo, count) on the held Todo.
GenerateRecurringInstances(count) ==
  /\ todo # None
  /\ nCalls < MaxCalls
  /\ \E result \in {generateRecurringInstances(todo[1], count, nextId)} :
       /\ call' = [op |-> "generate", task |-> todo[1], count |-> count,
                   now |-> clock, result |-> result]
       /\ nextId' = nextId + Len(result)
  /\ nCalls' = nCalls + 1
  /\ UNCHANGED << clock, arrays, todo >>

\* rescheduleRecurringTodo(todo, instanceId, newDate, propagate) on the held
\* Todo.  The caller keeps the Todo it passed; `call` records the returned
\* one, and what the passed one showed before the call.
RescheduleRecurringTodo(instanceId, newDate, propagateToFuture) ==
  /\ todo # None
  /\ nCalls < MaxCalls
  /\ \E r \in {rescheduleRecurringTodo(todo[1], instanceId, newDate,
                                       propagateToFuture)} :
       /\ arrays' = r.arrays
       /\ call' = [op |-> "reschedule", task |-> todo[1],
                   instanceId |-> instanceId, newDate |-> newDate,
                   propagate |-> propagateToFuture,
                   before |-> Occurrences(todo[1]),
                   result |-> r.todo]
  /\ nCalls' = nCalls + 1
  /\ UNCHANGED << clock, nextId, todo >>

\* An outside collaborator (UI, persistence) marks an occurrence completed
\* or cancelled; the engine itself never does.
MarkInstance(i, status) ==
  /\ todo # None
  /\ todo[1].instances # None
  /\ nCalls < MaxCalls
  /\ i \in 1..Len(arrays[todo[1].instances[1]])
  /\ arrays' = [arrays EXCEPT ![todo[1].instances[1]][i].status = status]
  /\ call' = [op |-> "mark", index |-> i, status |-> status]
  /\ nCalls' = nCalls + 1
  /\ UNCHANGED << clock, nextId, todo >>

\* Positions of the occurrences a caller picks: the first, the second and
\* the last of the five the factory generates.
TargetPositions == {1, 2, 5}

InstanceIds ==
  IF todo # None /\ todo[1].instances # None
  THEN {arrays[todo[1].instances[1]][i].id :
          i \in TargetPositions \cap (1..Len(arrays[todo[1].instances[1]]))}
  ELSE {}

Next ==
  \/ Tick
  \/ \E parsed \in SessionInputs : CreateTodoFromParsed(parsed)
  \/ \E count \in 0..MaxCount : GenerateRecurringInstances(count)
  \/ \E instanceId \in InstanceIds \cup {UnknownId}, newDate \in NewDates,
        propagateToFuture \in BOOLEAN :
       RescheduleRecurringTodo(instanceId, newDate, propagateToFuture)
  \/ \E i \in TargetPositions, status \in {"completed", "cancelled"} :
       MarkInstance(i, status)

Spec == Init /\ [][Next]_vars

(***************************************************************************)
(* Direct calls of the engine's pure functions, on sampled arguments.      *)
(***************************************************************************)
\* Anchors: month ends, a leap day, a year end and plain days.
SampleAnchors ==
  {None,
   Some(Day(2024, 1, 1)),  Some(Day(2024, 1, 31)), Some(Day(2023, 1, 31)),
   Some(Day(2024, 2, 29)), Some(Day(2024, 3, 31)), Some(Day(2024, 5, 31)),
   Some(Day(2024, 8, 31)), Some(Day(2024, 10, 31)), Some(Day(2023, 12, 31)),
   Some(Day(2024, 12, 15))}

SamplePatterns ==
  {Pattern("custom", n, u) : n \in 0..MaxInterval, u \in Units}

\* Recurrence descriptions as the language-model layer words them.
SampleDescriptions ==
  {"twice a year", "every 6 months", "every 1 month", "every 0 months",
   "every 00 months", "every 12 months", "Every 2 Months",
   "3 times, every 2 months", "monthly", "every month", "bimonthly",
   "quarterly", "every quarter", "annually", "yearly", "every year",
   "weekly", "every week", "daily", "every day", "every 2 weeks",
   "twice a year, monthly", "weekly, every 3 months", "daily or weekly",
   "now and then", ""}

CalculateNextDueDate(pattern, lastDate) ==
  /\ call' = [op |-> "calculateNextDueDate", pattern |-> pattern,
              lastDate |-> lastDate, now |-> clock,
              result |-> calculateNextDueDate(pattern, lastDate)]
  /\ UNCHANGED << clock, nextId, arrays, todo, nCalls >>

ParseRecurringPattern(description) ==
  /\ call' = [op |-> "parseRecurringPattern", description |-> description,
              result |-> parseRecurringPattern(description)]
  /\ UNCHANGED << clock, nextId, arrays, todo, nCalls >>

NextCalc ==
  \/ Tick
  \/ \E pattern \in SamplePatterns, lastDate \in SampleAnchors :
       CalculateNextDueDate(pattern, lastDate)
  \/ \E description \in SampleDescriptions : ParseRecurringPattern(description)

SpecCalc == Init /\ [][NextCalc]_vars

(***************************************************************************)
(* Properties of rescheduleRecurringTodo.                                  *)
(***************************************************************************)
HasId(instances, id) == \E i \in 1..Len(instances) : instances[i].id = id

PositionOf(instances, id) ==
  CHOOSE i \in 1..Len(instances) :
    /\ instances[i].id = id
    /\ \A j \in 1..(i - 1) : instances[j].id # id

\* The last call was a reschedule whose occurrenceId was found.
RescheduleFound ==
  /\ call.op = "reschedule"
  /\ call.before # None
  /\ HasId(call.before[1], call.instanceId)

\* The last call was a reschedule whose occurrenceId was not found.
RescheduleMissed ==
  /\ call.op = "reschedule"
  /\ (call.before = None \/ ~HasId(call.before[1], call.instanceId))

\* Occurrences before the call, and those the returned task shows after it.
Before == call.before[1]
After  == Occurrences(call.result)[1]
Target == PositionOf(Before, call.instanceId)
Delta  == call.newDate - Before[Target].scheduledDate

Contains(s, lit) == \E i \in 1..Len(s) : MatchAt(s, i, lit)

\* C1: after a reschedule that found its occurrence, the task value the
\* caller passed still shows the occurrences it showed before the call
\* (scheduledDate, status and delayReason of each), whatever propagate was.
C1_CallerTaskUntouched ==
  RescheduleFound => Occurrences(call.task) = call.before

\* C2: a reschedule whose occurrenceId matches no occurrence (or whose task
\* has no occurrence list) returns a task equal to the input in every field
\* and every occurrence.
C2_MissReturnsInput ==
  RescheduleMissed =>
    /\ call.result = call.task
    /\ Occurrences(call.result) = call.before

C2_Witness ==
  /\ RescheduleMissed
  /\ call.before # None
  /\ Len(call.before[1]) = 5
  /\ call.propagate

\* C3: with propagate = true every occurrence after the target is moved by
\* exactly delta = newDate - (target's previous date), and keeps its status.
C3_PropagateShiftsLater ==
  (RescheduleFound /\ call.propagate) =>
    \A i \in (Target + 1)..Len(Before) :
      /\ After[i].scheduledDate = Before[i].scheduledDate + Delta
      /\ After[i].status = Before[i].status

C3_Witness ==
  /\ RescheduleFound
  /\ call.propagate
  /\ Target = 2
  /\ Delta = 10
  /\ Before[5].status = "completed"

\* C4: with propagate = false every occurrence but the target is unchanged
\* in the returned task; with either value of propagate every occurrence
\* before the target is unchanged.
C4_OthersUnchanged ==
  RescheduleFound =>
    /\ Len(After) = Len(Before)
    /\ \A i \in 1..Len(Before) :
         (i < Target \/ (~call.propagate /\ i # Target)) => After[i] = Before[i]

C4_Witness ==
  /\ RescheduleFound
  /\ ~call.propagate
  /\ Target = 2
  /\ Delta # 0

\* C5: the target of a found reschedule gets scheduledDate = newDate, status
\* delayed (whatever its status was) and a non-empty delayReason that cites
\* the date it had before the call.
C5_TargetDelayed ==
  RescheduleFound =>
    /\ After[Target].scheduledDate = call.newDate
    /\ After[Target].status = "delayed"
    /\ After[Target].delayReason # None
    /\ After[Target].delayReason[1] # ""
    /\ Contains(After[Target].delayReason[1],
                toLocaleDateString(Before[Target].scheduledDate))

C5_Witness ==
  /\ RescheduleFound
  /\ Before[Target].status = "cancelled"
  /\ Delta # 0
  /\ After[Target].delayReason = Some("Rescheduled from 1/1/2025")

(***************************************************************************)
(* Properties of calculateNextDueDate and parseRecurringPattern.           *)
(***************************************************************************)
\* Months since year 0 of the month a date lies in.
MonthIndex(n) == getFullYear(n) * 12 + getMonth(n)

Min(a, b) == IF a <= b THEN a ELSE b

\* C6: adding months (or years) to an anchor gives a date inside the target
\* month, on the anchor's day-of-month or, when the target month is shorter,
\* on its last day; so one month after 2024-01-31 is not a date in March.
C6_MonthAdditionStaysInTargetMonth ==
  (/\ call.op = "calculateNextDueDate"
   /\ call.lastDate # None
   /\ call.pattern.unit \in {"months", "years"}) =>
    LET anchor == call.lastDate[1]
        months == IF call.pattern.unit = "months" THEN call.pattern.interval
                  ELSE 12 * call.pattern.interval
        target == MonthIndex(anchor) + months
    IN  /\ MonthIndex(call.result) = target
        /\ getDate(call.result) =
             Min(getDate(anchor), DaysInMonth(target \div 12, target % 12))

\* C8: every pattern parseRecurringPattern returns has interval >= 1.
C8_IntervalAtLeastOne ==
  (call.op = "parseRecurringPattern" /\ call.result # None) =>
    call.result[1].interval >= 1

(***************************************************************************)
(* Properties of createTodoFromParsed and generateRecurringInstances.      *)
(***************************************************************************)
\* C7: a Todo built by createTodoFromParsed is recurring exactly if it
\* carries a pattern; without a pattern it has no occurrences either.
C7_RecurringIffPattern ==
  (call.op = "create") =>
    /\ call.result.isRecurring <=> (call.result.recurringPattern # None)
    /\ (call.result.recurringPattern = None) => (call.result.instances = None)

\* The last call generated occurrences for a recurring task with a pattern.
Generated ==
  /\ call.op = "generate"
  /\ call.task.isRecurring
  /\ call.task.recurringPattern # None

GenerateAnchor == IF call.task.dueDate = None THEN call.now ELSE call.task.dueDate[1]

\* C9: generate returns exactly count occurrences, each scheduled, each with
\* the task's id as parentId, with pairwise distinct ids, at strictly
\* increasing dates the first of which is after the anchor.
C9_GenerateWellFormed ==
  Generated =>
    LET r == call.result
    IN  /\ Len(r) = call.count
        /\ \A i \in 1..Len(r) :
             /\ r[i].status = "scheduled"
             /\ r[i].parentId = call.task.id
        /\ \A i, j \in 1..Len(r) : (i # j) => (r[i].id # r[j].id)
        /\ \A i \in 1..Len(r) :
             r[i].scheduledDate >
               (IF i = 1 THEN GenerateAnchor ELSE r[i - 1].scheduledDate)

\* nextDue applied i times to the date d.
RECURSIVE NextDueTimes(_, _, _)
NextDueTimes(pattern, d, i) ==
  IF i = 0 THEN d
  ELSE calculateNextDueDate(pattern, Some(NextDueTimes(pattern, d, i - 1)))

\* C10: the i-th generated occurrence lies at nextDue applied i times to the
\* task's dueDate; five occurrences of a 6-month pattern from 2024-01-01 are
\* 2024-07-01, 2025-01-01, 2025-07-01, 2026-01-01, 2026-07-01.
C10_GenerateIteratesNextDue ==
  (Generated /\ call.task.dueDate # None) =>
    LET r == call.result
        pattern == call.task.recurringPattern[1]
        due == call.task.dueDate[1]
    IN  /\ Len(r) = call.count
        /\ \A i \in 1..call.count :
             r[i].scheduledDate = NextDueTimes(pattern, due, i)
        /\ (/\ due = Day(2024, 1, 1)
            /\ pattern.interval = 6
            /\ pattern.unit = "months"
            /\ call.count = 5) =>
             [i \in 1..5 |-> r[i].scheduledDate] =
               << Day(2024, 7, 1), Day(2025, 1, 1), Day(2025, 7, 1),
                  Day(2026, 1, 1), Day(2026, 7, 1) >>

C10_Witness ==
  /\ Generated
  /\ call.task.dueDate = Some(Day(2024, 1, 1))
  /\ call.task.recurringPattern[1].interval = 6
  /\ call.task.recurringPattern[1].unit = "months"
  /\ call.count = 5
  /\ Len(call.result) = 5
  /\ call.result[5].scheduledDate = Day(2026, 7, 1)

-----------------------------------------------------------------------------
\* The date a calculateNextDueDate call started from: its lastDate, or the
\* clock at the call when lastDate was omitted.
CalcAnchor == IF call.lastDate = None THEN call.now ELSE call.lastDate[1]

\* C11: calculateNextDueDate returns a date, and one strictly after its
\* anchor, for every anchor and every pattern with interval >= 1 and a unit
\* among days, weeks, months, years.
C11_NextDueStrictlyAfter ==
  (/\ call.op = "calculateNextDueDate"
   /\ call.pattern.interval >= 1
   /\ call.pattern.unit \in Units)
  => (call.result \in Int /\ call.result > CalcAnchor)

\* One month from 31 January 2024 is 2 March 2024, after the anchor.
C11_Witness ==
  /\ call.op = "calculateNextDueDate"
  /\ call.pattern.unit = "months" /\ call.pattern.interval = 1
  /\ call.lastDate = Some(Day(2024, 1, 31))
  /\ call.result = Day(2024, 3, 2)

-----------------------------------------------------------------------------
\* Direct calls of parseRelativeDate, on days that cover every weekday and
\* the month-end days 29, 30 and 31.

\* How many days before StartDay the clock may stand at the start.
MaxBack == 6

\* Due-date texts as the language-model layer words them (chat.ts asks for
\* "YYYY-MM-DD" or a "relative description").
SampleDateStrings ==
  {"today", "Today", "TODAY", " today ", "today please", "tomorrow",
   "this week", "next week", "this weekend", "This Weekend",
   "next month", "Next Month", " next month", "in 3 months", "in 1 month",
   "before summer", "by spring",
   "sunday", "monday", "tuesday", "wednesday", "thursday", "friday",
   "saturday", "Friday", "monday morning",
   "before winter", "by fall", "sometime maybe", "",
   "2024-03-15", "2024-13-45", "12/25/2024"}

InitDate ==
  /\ clock \in (StartDay - MaxBack)..StartDay
  /\ nextId = 0
  /\ arrays = << >>
  /\ todo = None
  /\ call = [op |-> "none"]
  /\ nCalls = 0

ParseRelativeDate(dateString) ==
  /\ \E r \in {parseRelativeDate(dateString)} :
       call' = [op |-> "parseRelativeDate", dateString |-> dateString,
                now |-> clock, result |-> r]
  /\ UNCHANGED << clock, nextId, arrays, todo, nCalls >>

NextDate ==
  \/ Tick
  \/ \E dateString \in SampleDateStrings : ParseRelativeDate(dateString)

SpecDate == InitDate /\ [][NextDate]_vars

\* C12: parseRelativeDate is a function of its text alone and never reads an
\* ambient clock: a call with the same text as the call before it returns
\* the same date, whenever each of the two is made.
C12_ResolveIgnoresClock ==
  [][(/\ call.op = "parseRelativeDate"
      /\ call'.op = "parseRelativeDate"
      /\ call'.dateString = call.dateString)
     => call'.result = call.result]_vars

-----------------------------------------------------------------------------
\* createTodoFromParsed on a wide range of parsed records: due-date texts
\* that are absent, empty, unresolvable, relative or ISO, and recurrence
\* descriptions that are absent, parsable or not.

FactoryProfiles ==
  {<< "renew passport", "high", "personal" >>,
   << "water plants", "low", "home" >>}

FactoryDueDates ==
  {None, Some(""), Some("sometime maybe"), Some("before winter"),
   Some("today"), Some("next month"), Some("2024-01-01"), Some("2024-01-31")}

FactoryDescriptions ==
  {None, Some("every 6 months"), Some("monthly"), Some("weekly"),
   Some("every 0 months"), Some("now and then")}

FactoryInputs ==
  {Parsed(f[1], f[2], f[3], d, r, p) :
     f \in FactoryProfiles, d \in FactoryDueDates, r \in BOOLEAN,
     p \in FactoryDescriptions}

NextFactory ==
  \/ Tick
  \/ \E parsed \in FactoryInputs : CreateTodoFromParsed(parsed)

SpecFactory == Init /\ [][NextFactory]_vars

\* What the date resolver made of the due-date text of the recorded create
\* call, on the day of the call; None also when there was no text.
ResolvedDueDate ==
  IF call.parsed.dueDate = None THEN None
  ELSE ResolveRelativeDate(call.parsed.dueDate[1], call.now)

\* C13: createTodoFromParsed does not fail on a due-date text that does not
\* resolve: the Todo it returns has no dueDate, status pending, and the
\* content, priority and category of the parsed record.
C13_UnresolvableDueDateLeftUnset ==
  (/\ call.op = "create"
   /\ call.parsed.dueDate # None
   /\ ResolvedDueDate = None)
  => /\ call.result.dueDate = None
     /\ call.result.status = "pending"
     /\ call.result.content = call.parsed.content
     /\ call.result.priority = call.parsed.priority
     /\ call.result.category = call.parsed.category

C13_Witness ==
  /\ call.op = "create"
  /\ call.parsed.dueDate = Some("sometime maybe")
  /\ call.parsed.content = "water plants"
  /\ call.result.dueDate = None
  /\ call.result.status = "pending"
  /\ call.result.priority = "low"

\* What the pattern parser makes of the recurrence description of the
\* recorded create call; None also when there was no description.
ParsedDescription ==
  IF call.parsed.recurringPattern = None THEN None
  ELSE parseRecurringPattern(call.parsed.recurringPattern[1].description)

\* The returned Todo carries the pattern with nextDueDate one step after the
\* resolved due date, and exactly 5 occurrences, the first of them on
\* nextDueDate.
NextDueAndFiveOccurrences ==
  /\ call.result.recurringPattern # None
  /\ call.result.recurringPattern[1].nextDueDate =
       Some(calculateNextDueDate(ParsedDescription[1], ResolvedDueDate))
  /\ Occurrences(call.result) # None
  /\ Len(Occurrences(call.result)[1]) = 5
  /\ Occurrences(call.result)[1][1].scheduledDate =
       call.result.recurringPattern[1].nextDueDate[1]

\* C14 as stated: for every input whose recurrence description parses and
\* whose due-date text resolves, createTodoFromParsed sets nextDueDate to
\* calculateNextDueDate(pattern, dueDate) and populates exactly 5
\* occurrences, so nextDueDate is the first occurrence's scheduledDate.
C14_Original ==
  (/\ call.op = "create"
   /\ ParsedDescription # None
   /\ ResolvedDueDate # None)
  => NextDueAndFiveOccurrences

\* C14, amended: the same for every such input that is also flagged
\* isRecurring; without the flag the description is not looked at.
C14_NextDueIsFirstOccurrence ==
  (/\ call.op = "create"
   /\ call.parsed.isRecurring
   /\ ParsedDescription # None
   /\ ResolvedDueDate # None)
  => NextDueAndFiveOccurrences

\* "every 6 months" due 2024-01-31: nextDueDate and the first occurrence
\* are on 2024-07-31.
C14_Witness ==
  /\ call.op = "create"
  /\ call.parsed.isRecurring
  /\ call.parsed.dueDate = Some("2024-01-31")
  /\ call.parsed.recurringPattern = Some([description |-> "every 6 months"])
  /\ call.result.recurringPattern[1].nextDueDate = Some(Day(2024, 7, 31))
  /\ Len(Occurrences(call.result)[1]) = 5
  /\ Occurrences(call.result)[1][1].scheduledDate = Day(2024, 7, 31)

\* C15: createTodoFromParsed computes nextDueDate and populates occurrences
\* only if dueDate is set: for an input (flagged isRecurring) whose
\* recurrence description parses but whose due-date text is absent or does
\* not resolve, the returned Todo has a recurringPattern with no
\* nextDueDate, and no occurrences.
C15_NoOccurrencesWithoutDueDate ==
  (/\ call.op = "create"
   /\ call.parsed.isRecurring
   /\ ParsedDescription # None
   /\ ResolvedDueDate = None)
  => /\ call.result.dueDate = None
     /\ call.result.recurringPattern # None
     /\ call.result.recurringPattern[1].nextDueDate = None
     /\ \/ Occurrences(call.result) = None
        \/ Occurrences(call.result) = Some(<< >>)

-----------------------------------------------------------------------------
\* s without its leading and trailing blanks.
Trim(s) ==
  IF \A i \in 1..Len(s) : Char(s, i) = " " THEN ""
  ELSE SubSeq(s,
              CHOOSE i \in 1..Len(s) :
                Char(s, i) # " " /\ \A j \in 1..(i - 1) : Char(s, j) = " ",
              CHOOSE i \in 1..Len(s) :
                Char(s, i) # " " /\ \A j \in (i + 1)..Len(s) : Char(s, j) = " ")

\* C16: parseRelativeDate matches its vocabulary case-insensitively against
\* the whole trimmed text: a text resolves to the date its trimmed,
\* lower-case form resolves to (" today " and "TODAY" like "today"), and a
\* text that merely contains a phrase ("today please") matches no rule.
C16_WholeTrimmedCaseInsensitive ==
  (call.op = "parseRelativeDate")
  => /\ call.result =
          ResolveRelativeDate(toLowerCase(Trim(call.dateString)), call.now)
     /\ (call.dateString = "today please" => call.result = None)

\* C17: "next month" resolves to the date with the same day of the month
\* one calendar month later, for every current day, the 29th, 30th and 31st
\* included.
C17_NextMonthSameDay ==
  (/\ call.op = "parseRelativeDate"
   /\ toLowerCase(call.dateString) = "next month")
  => /\ call.result # None
     /\ getDate(call.result[1]) = getDate(call.now)
     /\ MonthIndex(call.result[1]) = MonthIndex(call.now) + 1

\* Days from the day of the recorded parseRelativeDate call to its result.
Offset == call.result[1] - call.now

\* C18: a weekday name resolves to the next date on that weekday strictly
\* after the current day: the offset is between 1 and 7, the result falls on
\* the named weekday, and on that very weekday the result is 7 days out.
C18_WeekdayStrictlyAfter ==
  \A k \in 1..Len(dayNames) :
    (/\ call.op = "parseRelativeDate"
     /\ toLowerCase(call.dateString) = dayNames[k])
    => /\ call.result # None
       /\ Offset \in 1..7
       /\ getDay(call.result[1]) = k - 1
       /\ (getDay(call.now) = k - 1 => Offset = 7)

\* "wednesday" on Wednesday 24 January 2024 is 31 January 2024.
C18_Witness ==
  /\ call.op = "parseRelativeDate"
  /\ call.dateString = "wednesday"
  /\ call.now = Day(2024, 1, 24)
  /\ call.result = Some(Day(2024, 1, 31))

\* C19: "this weekend" resolves to the nearest Saturday on or after the
\* current day, for every weekday: (6 - weekday) mod 7 days out with
\* Sunday = 0, so 0 days on a Saturday and 3 on a Wednesday.
C19_WeekendNearestSaturday ==
  (/\ call.op = "parseRelativeDate"
   /\ toLowerCase(call.dateString) = "this weekend")
  => /\ call.result # None
     /\ Offset \in 0..6
     /\ getDay(call.result[1]) = 6
     /\ Offset = (6 - getDay(call.now)) % 7
     /\ (getDay(call.now) = 6 => Offset = 0)
     /\ (getDay(call.now) = 3 => Offset = 3)

\* "this weekend" on Saturday 27 January 2024 is that day.
C19_Witness ==
  /\ call.op = "parseRelativeDate"
  /\ call.dateString = "this weekend"
  /\ call.now = Day(2024, 1, 27)
  /\ getDay(call.now) = 6
  /\ call.result = Some(Day(2024, 1, 27))

-----------------------------------------------------------------------------
\* The phrases of the vocabulary other than "in N months".
Vocabulary ==
  {"today", "tomorrow", "this week", "next week", "this weekend",
   "next month", "before summer", "by spring",
   "sunday", "monday", "tuesday", "wednesday", "thursday", "friday",
   "saturday"}

\* dateString is "in N months" or "in N month", N a run of digits.
IsInNMonths(s) ==
  \E t \in {toLowerCase(s)} :
    \E n \in 1..Len(t) :
      /\ MatchAt(t, 1, "in ")
      /\ DigitRun(t, 4, 3 + n)
      /\ SubSeq(t, 4 + n, Len(t)) \in {" month", " months"}

\* Some rule of the vocabulary matches the text.
MatchesRule(s) == toLowerCase(s) \in Vocabulary \/ IsInNMonths(s)

\* The text is an ISO-8601 date of an existing day.
IsValidIsoDate(s) == IsIsoShape(s) /\ DateFromString(s) # None

\* C20: parseRelativeDate returns null for every text that matches no rule
\* of the vocabulary and is not a valid ISO date ("before winter",
\* "by fall", "sometime maybe"), and a date exactly when a rule matches or
\* the text is a valid ISO date.
C20_NullUnlessRuleOrIso ==
  (call.op = "parseRelativeDate")
  => /\ (call.result # None)
          <=> (MatchesRule(call.dateString) \/ IsValidIsoDate(call.dateString))
     /\ (call.dateString \in {"before winter", "by fall", "sometime maybe"}
          => call.result = None)

-----------------------------------------------------------------------------
\* The number N written in the leftmost "every N month" phrase of s.
MatchedNumber(s) ==
  LET t == toLowerCase(s)
      Ends(i) == {j \in (i + 6)..Len(t) :
                    DigitRun(t, i + 6, j) /\ MatchAt(t, j + 1, " month")}
      i == CHOOSE a \in 1..Len(t) :
             /\ MatchAt(t, a, "every ") /\ Ends(a) # {}
             /\ \A b \in 1..(a - 1) : ~(MatchAt(t, b, "every ") /\ Ends(b) # {})
      j == CHOOSE e \in Ends(i) : TRUE
  IN  parseInt(SubSeq(t, i + 6, j))

\* C21: for a description whose first matching rule is "every N months",
\* parseRecurringPattern returns {monthly, N, months} with N the number
\* written in the matched phrase, also when other digits come before it.
C21_IntervalFromMatchedPhrase ==
  (/\ call.op = "parseRecurringPattern"
   /\ ~TestLiteral(call.description, "twice a year")
   /\ TestEveryNMonths(call.description))
  => call.result =
       Some(Pattern("monthly", MatchedNumber(call.description), "months"))

\* The rules of the pattern parser in their order: the phrases of each (the
\* second rule, "every N months", is not a literal phrase).
RulePhrases ==
  << {"twice a year"}, {},
     {"monthly", "every month"}, {"quarterly", "every quarter"},
     {"annually", "yearly", "every year"}, {"weekly", "every week"},
     {"daily", "every day"} >>

\* Rule k matches s somewhere, whatever the letter case.
RuleMatches(k, s) ==
  IF k = 2 THEN TestEveryNMonths(s)
  ELSE \E p \in RulePhrases[k] : TestLiteral(s, p)

\* The descriptor of rule k for the text s.
RuleDescriptor(k, s) ==
  CASE k = 1 -> Pattern("custom", 6, "months")
    [] k = 2 -> Pattern("monthly", MatchedNumber(s), "months")
    [] k = 3 -> Pattern("monthly", 1, "months")
    [] k = 4 -> Pattern("custom", 3, "months")
    [] k = 5 -> Pattern("yearly", 1, "years")
    [] k = 6 -> Pattern("weekly", 1, "weeks")
    [] k = 7 -> Pattern("daily", 1, "days")

\* The rules that match s.
MatchingRules(s) == {k \in 1..Len(RulePhrases) : RuleMatches(k, s)}

\* C22: parseRecurringPattern applies its rules by substring match in the
\* fixed order twice a year, every N months, monthly, quarterly, yearly,
\* weekly, daily and returns the descriptor of the first rule that matches
\* ("twice a year" gives {custom, 6, months}); a description that matches
\* no rule gives null.
C22_FirstMatchingRuleWins ==
  (call.op = "parseRecurringPattern")
  => \E m \in {MatchingRules(call.description)} :
       /\ (m = {} => call.result = None)
       /\ (m # {} =>
             call.result =
               Some(RuleDescriptor(CHOOSE k \in m : \A l \in m : k <= l,
                                   call.description)))
       /\ (call.description = "twice a year"
             => call.result = Some(Pattern("custom", 6, "months")))

-----------------------------------------------------------------------------
\* Two occurrence sequences have the same length, the same ids in the same
\* positions and the same parentId on every occurrence.
SameShape(a, b) ==
  /\ Len(a) = Len(b)
  /\ \A i \in 1..Len(a) : a[i].id = b[i].id /\ a[i].parentId = b[i].parentId

\* The occurrences generated for the Todo t when it was created: it took an
\* identifier and its five occurrences the next five.
GeneratedFor(t) == generateRecurringInstances(t, 5, t.id)

\* C23: after any sequence of reschedule calls on a generated task, the
\* occurrence sequence has the length, the ids in their positions and the
\* parentId of the generated sequence, in the held task and in the task a
\* reschedule returned: nothing is added, removed, reordered or
\* re-identified.
C23_RescheduleKeepsShape ==
  /\ (todo # None /\ todo[1].instances # None)
       => SameShape(Occurrences(todo[1])[1], GeneratedFor(todo[1]))
  /\ (RescheduleFound /\ todo # None)
       => /\ SameShape(After, Before)
          /\ SameShape(After, GeneratedFor(todo[1]))

\* A second reschedule in a row: another occurrence already carries the
\* status delayed, and the five occurrences are still those generated.
C23_Witness ==
  /\ RescheduleFound
  /\ call.propagate
  /\ Len(After) = 5
  /\ \E i \in 1..Len(After) : i # Target /\ After[i].status = "delayed"
  /\ After[Target].scheduledDate = call.newDate
  /\ \A i \in 1..Len(After) : After[i].id = call.result.id + i

\* The occurrences are in non-decreasing scheduledDate order.
Ascending(instances) ==
  \A i \in 1..(Len(instances) - 1) :
    instances[i].scheduledDate <= instances[i + 1].scheduledDate

\* C24: if the occurrences are in non-decreasing scheduledDate order and one
\* of them is rescheduled with propagation to a date not earlier than its
\* scheduledDate, the returned occurrences are in non-decreasing order too;
\* so the order is broken only by a backward move or a move without
\* propagation.
C24_ForwardPropagateKeepsOrder ==
  /\ (RescheduleFound /\ Ascending(Before) /\ call.propagate /\ Delta >= 0)
       => Ascending(After)
  /\ (RescheduleFound /\ Ascending(Before) /\ ~Ascending(After))
       => (Delta < 0 \/ ~call.propagate)

\* The first of five occurrences half a year apart is moved forward past
\* the second, with propagation: all five move and stay in order.
C24_Witness ==
  /\ RescheduleFound
  /\ call.propagate
  /\ Target = 1
  /\ Len(Before) = 5
  /\ Before[1].scheduledDate < Before[2].scheduledDate
  /\ Before[2].scheduledDate < call.newDate
  /\ Ascending(Before)
  /\ Ascending(After)
  /\ After[5].scheduledDate = Before[5].scheduledDate + Delta

=============================================================================
